---- MODULE Spec2Model ----
(***************************************************************************)
(* Typed bindings over an FDB row store (paradox-typed-db).                *)
(*                                                                         *)
(* The generator (build.rs) turns every TableSpec into a column enum, a    *)
(* typed table (resolver map `col`), a typed row (accessors) and a serde   *)
(* Serialize impl.  The model runs that generated code for a small set of  *)
(* TableSpecs over raw tables drawn from bounded sets.                     *)
(*                                                                         *)
(* Encodings                                                               *)
(*   Option<T>      a sequence of length <= 1: None == <<>>, Some(v) ==    *)
(*                  <<v>>                                                  *)
(*   Field          a record [kind, val]; Field::Nothing has val <<>>      *)
(*   column enum    the variant of the i-th declared column is i (the      *)
(*                  derived Ord is the declaration order)                  *)
(*   BTreeMap       a function whose domain is the set of keys; iteration  *)
(*                  is by ascending key                                    *)
(*   usize index    0-based, as in the source; sequences are 1-based       *)
(***************************************************************************)
EXTENDS Integers, Sequences, FiniteSets, TLC

VARIABLES
    usizeBits,  \* pointer width of the build target (32 or 64)
    tspec,      \* the TableSpec the generated code was produced from
    inner,      \* the raw table: [columns, buckets]
    typed,      \* Option<TypedTable>: None before TypedTable::new
    ret,        \* the call in progress / its result, Idle between calls
    log,        \* diagnostics (log::warn!) emitted by the call
    tables,     \* the table set handed to TypedDatabase::new: slot -> status
    db,         \* Option<outcome of TypedDatabase::new>
    iters,      \* the RowIter each consumer holds: handle -> Option<RowIter>
    building,   \* Option<locals of a TypedTable::new in progress>
    readers,    \* the accessor call of each reader thread
    gen         \* the generator's column loop: columns done and code emitted

vars == <<usizeBits, tspec, inner, typed, ret, log, tables, db, iters, building, readers, gen>>

\* the table set and the database built from it
dbVars == <<tables, db>>

\* the iterators handed out by row_iter()
iterVars == <<iters>>

\* a construction in steps and the threads reading the table
readerVars == <<building, readers>>

\* the run of the generator
genVars == <<gen>>

-----------------------------------------------------------------------------
(* Bounds of the model *)

MaxCols == 3
MaxRows == 3
MaxBuckets == 7
MaxFaults == 2

-----------------------------------------------------------------------------
(* Option *)

None == <<>>
Some(v) == <<v>>

-----------------------------------------------------------------------------
(* Schema model: Spec / TableSpec / ColumnSpec / ValueType *)

ValueType == {"Nothing", "Integer", "Float", "Text", "Boolean", "BigInt", "VarChar"}

ColumnSpec(name, ty, nullable) == [name |-> name, ty |-> ty, nullable |-> nullable]

MissionsSpec ==
    [name |-> "Missions",
     columns |-> << ColumnSpec("id", "Integer", FALSE),
                    ColumnSpec("missionIconID", "Integer", TRUE) >>]

ObjectsSpec ==
    [name |-> "Objects",
     columns |-> << ColumnSpec("id", "Integer", FALSE),
                    ColumnSpec("name", "Text", FALSE),
                    ColumnSpec("placeable", "Boolean", TRUE) >>]

IconsSpec ==
    [name |-> "Icons",
     columns |-> << ColumnSpec("IconID", "Integer", FALSE),
                    ColumnSpec("IconPath", "Text", TRUE),
                    ColumnSpec("static", "Boolean", FALSE) >>]

TableSpecs == {MissionsSpec, ObjectsSpec, IconsSpec}

\* tables with a non-nullable and a nullable column of each remaining kind
PhysicsSpec ==
    [name |-> "Physics",
     columns |-> << ColumnSpec("speed", "Float", FALSE),
                    ColumnSpec("jump", "Float", TRUE) >>]

StatisticsSpec ==
    [name |-> "Statistics",
     columns |-> << ColumnSpec("statID", "BigInt", FALSE),
                    ColumnSpec("sortOrder", "BigInt", TRUE) >>]

ZonesSpec ==
    [name |-> "Zones",
     columns |-> << ColumnSpec("zoneName", "VarChar", FALSE),
                    ColumnSpec("scriptID", "VarChar", TRUE) >>]

MarkersSpec ==
    [name |-> "Markers",
     columns |-> << ColumnSpec("marker", "Nothing", FALSE),
                    ColumnSpec("unused", "Nothing", TRUE) >>]

\* the columns of MissionTasks that get_mission_tasks reads
MissionTasksSpec ==
    [name |-> "MissionTasks",
     columns |-> << ColumnSpec("id", "Integer", FALSE),
                    ColumnSpec("IconID", "Integer", TRUE),
                    ColumnSpec("uid", "Integer", FALSE) >>]

KindSpecs == {PhysicsSpec, StatisticsSpec, ZonesSpec, MarkersSpec, MissionsSpec, IconsSpec}

ccount(ts) == Len(ts.columns)

\* The variants of the generated column enum, in derived Ord order
Column(ts) == 1..ccount(ts)

\* heck's to_camel_case (upper camel case: the words of the name, split at
\* case changes, each capitalised) on the column names of TableSpecs
to_camel_case(cn) ==
    CASE cn = "id" -> "Id"
      [] cn = "missionIconID" -> "MissionIconId"
      [] cn = "name" -> "Name"
      [] cn = "placeable" -> "Placeable"
      [] cn = "IconID" -> "IconId"
      [] cn = "IconPath" -> "IconPath"
      [] cn = "static" -> "Static"
      [] cn = "type" -> "Type"
      [] cn = "match" -> "Match"

\* heck's to_snake_case on the column names of TableSpecs
to_snake_case(cn) ==
    CASE cn = "id" -> "id"
      [] cn = "missionIconID" -> "mission_icon_id"
      [] cn = "name" -> "name"
      [] cn = "placeable" -> "placeable"
      [] cn = "IconID" -> "icon_id"
      [] cn = "IconPath" -> "icon_path"
      [] cn = "static" -> "static"
      [] cn = "type" -> "type"
      [] cn = "match" -> "match"

\* the accessor identifier for a snake-case name: type and static are
\* emitted as raw identifiers
escape(c) ==
    CASE c = "type" -> "r#type"
      [] c = "static" -> "r#static"
      [] OTHER -> c

\* What one turn of the column loop emits for a ColumnSpec: the accessor
\* identifier, the enum variant, the name in the to_static_str arm, in the
\* serialize_field call and in the cmatch arm, and the conversion and
\* nullability the accessor is built from
GenerateColumn(cspec) ==
    [cname |-> escape(to_snake_case(cspec.name)),
     cfname |-> to_camel_case(cspec.name),
     to_static_str |-> cspec.name,
     serialize_field |-> cspec.name,
     cmatch |-> cspec.name,
     map_fn |-> cspec.ty,
     nullable |-> cspec.nullable]

\* the identifiers of the variants of the generated column enum, by position
cslist(ts) == [c \in Column(ts) |-> to_camel_case(ts.columns[c].name)]

\* a to_static_str that gives the identifier of the variant
to_static_str_ident(ts, c) == cslist(ts)[c]

\* TypedColumn::to_static_str: Self::#cfname => #cn
to_static_str(ts, c) == ts.columns[c].name

-----------------------------------------------------------------------------
(* Raw fields and rows (assembly_fdb::mem::Field / Row) *)

Nothing == [kind |-> "Nothing", val |-> <<>>]
Integer(n) == [kind |-> "Integer", val |-> n]
Text(s) == [kind |-> "Text", val |-> s]
Boolean(b) == [kind |-> "Boolean", val |-> b]
Float(x) == [kind |-> "Float", val |-> x]
BigInt(n) == [kind |-> "BigInt", val |-> n]
VarChar(s) == [kind |-> "VarChar", val |-> s]

\* Row::field_at(index): None past the end of the row
field_at(row, index) ==
    IF index < Len(row) THEN Some(row[index + 1]) ELSE None

\* The map_fn of a column: the try-convert operation of its value kind
field_into_nothing(f) == Some(<<>>)

into_opt(kind, f) == IF f.kind = kind THEN Some(f.val) ELSE None

\* a map_fn that converts by kind alone, also for a Nothing column
map_fn_by_kind(ty, f) == into_opt(ty, f)

map_fn(ty, f) ==
    IF ty = "Nothing" THEN field_into_nothing(f) ELSE into_opt(ty, f)

\* opt.and_then(map_fn), for an Option<Field>
and_then_map_fn(opt, ty) == IF opt = None THEN None ELSE map_fn(ty, opt[1])

\* The default a non-nullable accessor substitutes
EMPTY_L1_STR == ""

default(ty) ==
    CASE ty \in {"Text", "VarChar"} -> EMPTY_L1_STR
      [] ty \in {"Integer", "BigInt", "Float"} -> 0
      [] ty = "Boolean" -> FALSE
      [] OTHER -> <<>>

-----------------------------------------------------------------------------
(* Hash-bucket addressing *)

RECURSIVE Pow2Mod(_, _)
\* 2^n mod m, computed without leaving the small integers
Pow2Mod(n, m) == IF n = 0 THEN 1 % m ELSE (2 * Pow2Mod(n - 1, m)) % m

\* (the two's-complement bit pattern of the i32 `key`, read as an unsigned
\* integer of `bits` bits) mod m:  key >= 0 keeps its value, key < 0 is
\* key + 2^bits
BitsMod(key, bits, m) ==
    IF key >= 0 THEN key % m ELSE ((key % m) + Pow2Mod(bits, m)) % m

\* u32::from_ne_bytes(id.to_ne_bytes()) as usize % bucket_count
bucket_for_hash(id, bucket_count) == BitsMod(id, 32, bucket_count)

\* key as usize % bucket_count: the i32 -> usize cast sign-extends to the
\* pointer width
KeyAsUsizeMod(key, bucket_count, bits) == BitsMod(key, bits, bucket_count)

bucket_count(table) == Len(table.buckets)

\* Table::bucket_at(index): None past the last bucket
bucket_at(table, index) ==
    IF index < Len(table.buckets) THEN Some(table.buckets[index + 1]) ELSE None

RECURSIVE Concat(_)
Concat(ss) == IF ss = <<>> THEN <<>> ELSE Head(ss) \o Concat(Tail(ss))

\* Table::row_iter(): every bucket in order, every row of the bucket in order
table_row_iter(table) == Concat(table.buckets)

-----------------------------------------------------------------------------
(* Column resolver: generated TypedTable::new and get_col *)

\* cmatch comparing names without regard to case
cmatchIgnoreCase(ts, bytes) ==
    LET lower == IF bytes = "ID" THEN "id" ELSE bytes
        hits == {c \in Column(ts) : ts.columns[c].name = lower}
    IN  IF hits = {} THEN None
        ELSE Some(CHOOSE c \in hits : \A d \in hits : c <= d)

\* The generated match on the raw column name: Some(variant) for the declared
\* column whose name is byte-for-byte `bytes`, else None
cmatch(ts, bytes) ==
    LET hits == {c \in Column(ts) : ts.columns[c].name = bytes}
    IN  IF hits = {} THEN None
        ELSE Some(CHOOSE c \in hits : \A d \in hits : c <= d)

\* an insert that keeps the value already stored (entry().or_insert())
BTreeInsertKeepFirst(m, k, v) ==
    [x \in (DOMAIN m) \cup {k} |-> IF x \in DOMAIN m THEN m[x] ELSE v]

\* BTreeMap::insert: a later insert of the same key replaces the value
BTreeInsert(m, k, v) ==
    [x \in (DOMAIN m) \cup {k} |-> IF x = k THEN v ELSE m[x]]

RECURSIVE ResolveFrom(_, _, _, _)
\* the loop of new(): physical columns i .. end, in stored order
ResolveFrom(ts, columns, i, col) ==
    IF i > Len(columns) THEN col
    ELSE LET key == cmatch(ts, columns[i])
         IN  ResolveFrom(ts, columns, i + 1,
                 IF key # None THEN BTreeInsert(col, key[1], i - 1) ELSE col)

\* a new() that unwraps every declared column, as make_typed! does
TypedTableNewUnwrap(ts, table) ==
    LET col == ResolveFrom(ts, table.columns, 1, <<>>)
    IN  IF DOMAIN col = Column(ts) THEN [col |-> col]
        ELSE [outcome |-> "panic", msg |-> "called Option::unwrap() on a None value"]

TypedTableNew(ts, table) ==
    [col |-> ResolveFrom(ts, table.columns, 1, <<>>)]

get_col(t, c) == IF c \in DOMAIN t.col THEN Some(t.col[c]) ELSE None

-----------------------------------------------------------------------------
(* Raw tables the model runs on *)

Keys == {-4, 1, 2, 7}

\* the ids TypedRow::get is asked for under an index key: the index key
\* itself (id_col 0) and a value of the second column
GetKeys(index_key) == {index_key, 5}

ExtraNames == {"extra", "ID"}

DeclaredNames(ts) == {ts.columns[c].name : c \in Column(ts)}

RECURSIVE SeqsUpTo(_, _)
\* all sequences over S of length <= n
SeqsUpTo(S, n) ==
    IF n = 0 THEN {<<>>}
    ELSE LET shorter == SeqsUpTo(S, n - 1)
         IN  shorter \cup {Append(s, x) : s \in shorter, x \in S}

\* The row store files a row under the hash of its key (physical field 0)
RowBucket(row, n) ==
    IF Len(row) > 0 /\ row[1].kind = "Integer" THEN bucket_for_hash(row[1].val, n) ELSE 0

Bucketed(rows, n) ==
    [b \in 1..n |-> SelectSeq(rows, LAMBDA r : RowBucket(r, n) = b - 1)]

-----------------------------------------------------------------------------
(* Generated accessors (one per declared column) *)

Panic(msg) == [outcome |-> "panic", msg |-> msg, log |-> <<>>]

Ok(val, diagnostics) == [outcome |-> "ok", val |-> val, log |-> diagnostics]

\* Option::unwrap_or
unwrap_or(opt, d) == IF opt = None THEN d ELSE opt[1]

\* log::warn!("Missing column {} in {}"); the table is named by its CamelCase
\* form, which for the table names of TableSpecs is the name itself
WarnMissingColumn(ts, c) ==
    [level |-> "warn", what |-> "Missing column",
     column |-> ts.columns[c].name, table |-> ts.name]

\* log::warn!("Missing non-nullable field {} in {} in row {:?}")
WarnMissingField(ts, c, pk) ==
    [level |-> "warn", what |-> "Missing non-nullable field",
     column |-> ts.columns[c].name, table |-> ts.name, pk |-> pk]

\* a nullable accessor that expects the column to be resolved
NullableAccessorExpect(ts, t, row, c) ==
    LET index == get_col(t, c)
    IN  IF index # None
        THEN Ok(and_then_map_fn(field_at(row, index[1]), ts.columns[c].ty), <<>>)
        ELSE Panic("Missing column")

\* pub fn #cname(&self) -> Option<#return_type>
NullableAccessor(ts, t, row, c) ==
    LET index == get_col(t, c)
    IN  IF index # None
        THEN Ok(and_then_map_fn(field_at(row, index[1]), ts.columns[c].ty), <<>>)
        ELSE Ok(None, << WarnMissingColumn(ts, c) >>)

\* a non-nullable accessor that unwraps the converted value, as Extract does
NonNullableAccessorUnwrap(ts, t, row, c) ==
    LET index == get_col(t, c)
    IN  IF index = None THEN Panic("Missing column")
        ELSE LET value == field_at(row, index[1])
             IN  IF value = None THEN Panic("defined field missing, FDB corrupt")
                 ELSE LET m == map_fn(ts.columns[c].ty, value[1])
                      IN  IF m # None THEN Ok(m[1], <<>>)
                          ELSE Panic("called Option::unwrap() on a None value")

\* a non-nullable accessor that treats an unresolved column as a null field
NonNullableAccessorLenient(ts, t, row, c) ==
    LET index == get_col(t, c)
        pk == unwrap_or(field_at(row, 0), Nothing)
    IN  IF index = None
        THEN Ok(default(ts.columns[c].ty), << WarnMissingField(ts, c, pk) >>)
        ELSE LET value == field_at(row, index[1])
             IN  IF value = None THEN Panic("defined field missing, FDB corrupt")
                 ELSE LET m == map_fn(ts.columns[c].ty, value[1])
                      IN  IF m # None THEN Ok(m[1], <<>>)
                          ELSE Ok(default(ts.columns[c].ty),
                                  << WarnMissingField(ts, c, pk) >>)

\* pub fn #cname(&self) -> #return_type
NonNullableAccessor(ts, t, row, c) ==
    LET index == get_col(t, c)
    IN  IF index = None THEN Panic("Missing column")
        ELSE LET value == field_at(row, index[1])
             IN  IF value = None THEN Panic("defined field missing, FDB corrupt")
                 ELSE LET m == map_fn(ts.columns[c].ty, value[1])
                      IN  IF m # None THEN Ok(m[1], <<>>)
                          ELSE LET pk == unwrap_or(field_at(row, 0), Nothing)
                               IN  Ok(default(ts.columns[c].ty),
                                      << WarnMissingField(ts, c, pk) >>)

Accessor(ts, t, row, c) ==
    IF ts.columns[c].nullable
    THEN NullableAccessor(ts, t, row, c)
    ELSE NonNullableAccessor(ts, t, row, c)

-----------------------------------------------------------------------------
(* Generated serde::Serialize for a row *)

\* a serialize_struct_field that names the field as the accessor is named
serialize_struct_field_snake(ts, c, value) ==
    [name |-> to_snake_case(ts.columns[c].name), value |-> map_fn(ts.columns[c].ty, value)]

\* TypedColumn::serialize_struct_field: s.serialize_field(cn, &map_fn(value))
serialize_struct_field(ts, c, value) ==
    [name |-> ts.columns[c].name, value |-> map_fn(ts.columns[c].ty, value)]

RECURSIVE SerializeFrom(_, _, _, _, _)
\* the loop over &self.table.col from key c on; s is the record so far
SerializeFrom(ts, t, row, c, s) ==
    IF c > ccount(ts) THEN Ok(s, <<>>)
    ELSE IF c \notin DOMAIN t.col THEN SerializeFrom(ts, t, row, c + 1, s)
    ELSE LET value == field_at(row, t.col[c])
         IN  IF value = None THEN Panic("Missing known column")
             ELSE SerializeFrom(ts, t, row, c + 1,
                      [s EXCEPT !.fields =
                          Append(@, serialize_struct_field(ts, c, value[1]))])

RECURSIVE SerializeByIndexFrom(_, _, _, _, _)
SerializeByIndexFrom(ts, t, row, i, s) ==
    IF i >= Len(row) THEN Ok(s, <<>>)
    ELSE LET cs == {c \in DOMAIN t.col : t.col[c] = i}
         IN  IF cs = {} THEN SerializeByIndexFrom(ts, t, row, i + 1, s)
             ELSE SerializeByIndexFrom(ts, t, row, i + 1,
                      [s EXCEPT !.fields =
                          Append(@, serialize_struct_field(ts, CHOOSE c \in cs : TRUE, row[i + 1]))])

\* a serialization that walks the row's fields in physical order
SerializeByIndex(ts, t, row) ==
    SerializeByIndexFrom(ts, t, row, 0, [name |-> ts.name, len |-> ccount(ts), fields |-> <<>>])

\* serializer.serialize_struct(name, ccount) ... s.end()
Serialize(ts, t, row) ==
    SerializeFrom(ts, t, row, 1, [name |-> ts.name, len |-> ccount(ts), fields |-> <<>>])

-----------------------------------------------------------------------------
(* Iteration protocol *)

\* row_iter(): collected
RowIter(table) == Ok(table_row_iter(table), <<>>)

\* the consumers holding an iterator
Handles == {"a", "b"}

\* RowIter::new(table): the raw row iterator at the start of the table;
\* yielded is what the consumer has received from it
RowIterNew(table) ==
    [inner |-> table_row_iter(table), yielded |-> <<>>, ended |-> FALSE]

\* a next() over a cursor that all iterators of the table share
RowIterNextShared(its, h) ==
    [g \in DOMAIN its |->
        IF its[g] = None \/ its[h][1].inner = <<>>
        THEN IF g = h /\ its[g] # None THEN Some([its[g][1] EXCEPT !.ended = TRUE]) ELSE its[g]
        ELSE IF g = h
        THEN Some([inner |-> Tail(its[h][1].inner),
                   yielded |-> Append(its[h][1].yielded, Head(its[h][1].inner)),
                   ended |-> FALSE])
        ELSE Some([its[g][1] EXCEPT !.inner = IF @ = <<>> THEN @ ELSE Tail(@)])]

\* RowIter::next on the iterator of handle h:
\* self.inner.next().map(|row| R::new(row, self.table))
RowIterNext(its, h) ==
    [its EXCEPT ![h] =
        IF its[h][1].inner = <<>>
        THEN Some([its[h][1] EXCEPT !.ended = TRUE])
        ELSE Some([inner |-> Tail(its[h][1].inner),
                   yielded |-> Append(its[h][1].yielded, Head(its[h][1].inner)),
                   ended |-> FALSE])]

\* a result that also records the bucket index the call computed
OkAt(hash, val) == [outcome |-> "ok", val |-> val, log |-> <<>>, hash |-> hash]

\* a key_iter that yields the whole bucket, as row_type! does
KeyIterUnfiltered(table, key, bits) ==
    IF bucket_count(table) = 0 THEN Panic("attempt to calculate the remainder with a divisor of zero")
    ELSE LET hash == KeyAsUsizeMod(key, bucket_count(table), bits)
             bucket == bucket_at(table, hash)
         IN  IF bucket = None THEN Panic("called Option::unwrap() on a None value")
             ELSE OkAt(hash, bucket[1])

\* a key_iter that selects the bucket by the key's 32-bit pattern
KeyIterByHash(table, key, bits) ==
    IF bucket_count(table) = 0 THEN Panic("attempt to calculate the remainder with a divisor of zero")
    ELSE LET hash == bucket_for_hash(key, bucket_count(table))
             bucket == bucket_at(table, hash)
         IN  IF bucket = None THEN Panic("called Option::unwrap() on a None value")
             ELSE OkAt(hash, SelectSeq(bucket[1],
                        LAMBDA row : field_at(row, 0) = Some(Integer(key))))

\* key_iter(key): collected
KeyIter(table, key, bits) ==
    IF bucket_count(table) = 0 THEN Panic("attempt to calculate the remainder with a divisor of zero")
    ELSE LET hash == KeyAsUsizeMod(key, bucket_count(table), bits)
             bucket == bucket_at(table, hash)
         IN  IF bucket = None THEN Panic("called Option::unwrap() on a None value")
             ELSE OkAt(hash, SelectSeq(bucket[1],
                        LAMBDA row : field_at(row, 0) = Some(Integer(key))))

\* row_type!'s $key_iter_name(key) of typed_rows.rs: collected
row_type_key_iter(table, key, bits) ==
    IF bucket_count(table) = 0 THEN Panic("attempt to calculate the remainder with a divisor of zero")
    ELSE LET hash == KeyAsUsizeMod(key, bucket_count(table), bits)
             bucket == bucket_at(table, hash)
         IN  IF bucket = None THEN Panic("called Option::unwrap() on a None value")
             ELSE OkAt(hash, bucket[1])

\* r.field_at(id_col).and_then(|x| x.into_opt_integer()) == Some(key)
IdMatches(r, id_col, key) ==
    and_then_map_fn(field_at(r, id_col), "Integer") = Some(key)

RECURSIVE LastMatch(_, _, _)
\* a search that keeps going and returns the last row that matches
LastMatch(rows, id_col, key) ==
    IF rows = <<>> THEN None
    ELSE LET later == LastMatch(Tail(rows), id_col, key)
         IN  IF later # None THEN later
             ELSE IF IdMatches(Head(rows), id_col, key) THEN Some(Head(rows))
             ELSE None

RECURSIVE FirstMatch(_, _, _)
\* the for loop of get(): the first row of the bucket that matches
FirstMatch(rows, id_col, key) ==
    IF rows = <<>> THEN None
    ELSE IF IdMatches(Head(rows), id_col, key) THEN Some(Head(rows))
    ELSE FirstMatch(Tail(rows), id_col, key)

\* TypedRow::get(table, index_key, key, id_col)
TypedRowGet(table, index_key, key, id_col, bits) ==
    IF bucket_count(table) = 0 THEN Panic("attempt to calculate the remainder with a divisor of zero")
    ELSE LET hash == KeyAsUsizeMod(index_key, bucket_count(table), bits)
             b == bucket_at(table, hash)
         IN  IF b = None THEN OkAt(hash, None)
             ELSE OkAt(hash, FirstMatch(b[1], id_col, key))

-----------------------------------------------------------------------------
(* TypedTable::of and TypedDatabase::new *)

\* Result<T, E>
ResultOk(v) == [ok |-> TRUE, val |-> v]
ResultErr(e) == [ok |-> FALSE, err |-> e]

\* Result::map(Self::new)
ResultMapNew(r) == IF r.ok THEN ResultOk([view |-> r.val]) ELSE r

\* The fields of the struct literal in TypedDatabase::new, in the order they
\* are written, which is the order they are evaluated in.  A table is named
\* by the field that holds it.
Slots ==
    << "activities", "activity_text", "behavior_parameters", "behavior_templates",
       "collectible_component", "comp_reg", "currency_denominations",
       "deletion_restrictions", "destructible_component", "emotes", "icons",
       "inventory_component", "item_component", "item_sets", "item_set_skills",
       "jet_pack_pad_component", "loot_matrix", "loot_table", "mission_email",
       "mission_npc_component", "mission_tasks", "mission_text", "missions",
       "npc_icons", "objects", "object_skills", "player_statistics",
       "preconditions", "property_template", "rewards", "reward_codes",
       "rebuild_component", "rebuild_sections", "render_comp", "skills",
       "speedchat_menu", "taming_build_puzzles", "ug_behavior_sounds",
       "whats_cool_item_spotlight", "whats_cool_news_and_tips",
       "zone_loading_tips", "zone_table" >>

SlotSet == {Slots[i] : i \in 1..Len(Slots)}

\* the fields initialised with T::of(tables).transpose()?
TransposeSlots == {"jet_pack_pad_component", "rebuild_sections"}

\* the fields initialised with T::of(tables).unwrap()?
UnwrapSlots == SlotSet \ TransposeSlots

\* the fields struct TypedDatabase declares as Option<T>
OptionFields == {"rebuild_sections"}

TableStatus == {"absent", "invalid", "valid"}

\* the CastError the row store reports for a table it cannot cast
CastErrorOf(name) == [cast_error |-> name]

\* Tables::by_name: not found, or the result of casting the table found
by_name(tbls, name) ==
    CASE tbls[name] = "absent" -> None
      [] tbls[name] = "invalid" -> Some(ResultErr(CastErrorOf(name)))
      [] tbls[name] = "valid" -> Some(ResultOk(name))

\* an of() that reports a table it cannot cast as not found
TypedTableOfSwallow(tbls, name) ==
    LET table == by_name(tbls, name)
    IN  IF table = None \/ ~ table[1].ok THEN None
        ELSE Some(ResultMapNew(table[1]))

\* TypedTable::of(tables) -> Option<Result<Self, CastError>>
TypedTableOf(tbls, name) ==
    LET table == by_name(tbls, name)
    IN  IF table = None THEN None
        ELSE Some(ResultMapNew(table[1]))

\* the early return of the ? operator
Err(e) == [outcome |-> "err", err |-> e, log |-> <<>>]

\* a call of new() together with the tables it looked up, in order
Looked(res, seen) == res @@ [looked_up |-> seen]

\* a new() that builds every field before it reports a cast failure
TypedDatabaseNewCastFirst(tbls) ==
    LET bad == {i \in 1..Len(Slots) : tbls[Slots[i]] = "invalid"}
        first == CHOOSE i \in bad : \A j \in bad : i <= j
        missing == {i \in 1..Len(Slots) :
                       tbls[Slots[i]] = "absent" /\ Slots[i] \notin TransposeSlots}
    IN  IF bad # {} THEN Looked(Err(CastErrorOf(Slots[first])), Slots)
        ELSE IF missing # {}
        THEN Looked(Panic("called Option::unwrap() on a None value"),
                    SubSeq(Slots, 1, CHOOSE i \in missing : \A j \in missing : i <= j))
        ELSE Looked(Ok([slot \in SlotSet |->
                           IF tbls[slot] = "absent" THEN None
                           ELSE IF slot \in TransposeSlots THEN Some([view |-> slot])
                           ELSE [view |-> slot]], <<>>), Slots)

RECURSIVE DatabaseNewFromLenient(_, _, _, _)
\* field initialisers whose optional path turns a failed cast into None
DatabaseNewFromLenient(tbls, i, fields, seen) ==
    IF i > Len(Slots) THEN Looked(Ok(fields, <<>>), seen)
    ELSE LET slot == Slots[i]
             of == TypedTableOf(tbls, slot)
             looked == Append(seen, slot)
         IN  IF slot \in TransposeSlots
             THEN IF of = None \/ ~ of[1].ok
                  THEN DatabaseNewFromLenient(tbls, i + 1, [fields EXCEPT ![slot] = None], looked)
                  ELSE DatabaseNewFromLenient(tbls, i + 1,
                           [fields EXCEPT ![slot] = Some(of[1].val)], looked)
             ELSE IF of = None
                  THEN Looked(Panic("called Option::unwrap() on a None value"), looked)
                  ELSE IF of[1].ok
                  THEN DatabaseNewFromLenient(tbls, i + 1, [fields EXCEPT ![slot] = of[1].val], looked)
                  ELSE Looked(Err(of[1].err), looked)

RECURSIVE DatabaseNewFrom(_, _, _, _)
\* the field initialisers from the i-th on; fields holds the values so far,
\* seen the tables looked up so far
DatabaseNewFrom(tbls, i, fields, seen) ==
    IF i > Len(Slots) THEN Looked(Ok(fields, <<>>), seen)
    ELSE LET slot == Slots[i]
             of == TypedTableOf(tbls, slot)
             looked == Append(seen, slot)
         IN  IF slot \in TransposeSlots
             THEN \* Option<Result<T, E>>::transpose()?
                  IF of = None
                  THEN DatabaseNewFrom(tbls, i + 1, [fields EXCEPT ![slot] = None], looked)
                  ELSE IF of[1].ok
                  THEN DatabaseNewFrom(tbls, i + 1, [fields EXCEPT ![slot] = Some(of[1].val)], looked)
                  ELSE Looked(Err(of[1].err), looked)
             ELSE \* Option<Result<T, E>>::unwrap()?
                  IF of = None
                  THEN Looked(Panic("called Option::unwrap() on a None value"), looked)
                  ELSE IF of[1].ok
                  THEN DatabaseNewFrom(tbls, i + 1, [fields EXCEPT ![slot] = of[1].val], looked)
                  ELSE Looked(Err(of[1].err), looked)

\* TypedDatabase::new(tables) -> Result<Self, CastError>
TypedDatabaseNew(tbls) ==
    DatabaseNewFrom(tbls, 1, [slot \in SlotSet |-> None], <<>>)

-----------------------------------------------------------------------------
(* TypedDatabase helper queries *)

\* MissionTask { icon_id, uid }
MissionTask(icon_id, uid) == [icon_id |-> icon_id, uid |-> uid]

RECURSIVE TasksFromAll(_, _, _, _, _)
\* a loop that pushes a task for every row of the bucket
TasksFromAll(rows, id, col_icon_id, col_uid, tasks) ==
    IF rows = <<>> THEN Ok(tasks, <<>>)
    ELSE LET row == Head(rows)
         IN  IF field_at(row, 0) = None \/ field_at(row, col_icon_id) = None
                \/ field_at(row, col_uid) = None
                \/ into_opt("Integer", field_at(row, col_uid)[1]) = None
             THEN Panic("called Option::unwrap() on a None value")
             ELSE TasksFromAll(Tail(rows), id, col_icon_id, col_uid,
                     Append(tasks, MissionTask(into_opt("Integer", field_at(row, col_icon_id)[1]),
                                               into_opt("Integer", field_at(row, col_uid)[1])[1])))

RECURSIVE TasksFrom(_, _, _, _, _)
\* for row in bucket.row_iter() { .. }: tasks holds what was pushed so far
TasksFrom(rows, id, col_icon_id, col_uid, tasks) ==
    IF rows = <<>> THEN Ok(tasks, <<>>)
    ELSE LET row == Head(rows)
             id_field == field_at(row, 0)
         IN  IF id_field = None THEN Panic("called Option::unwrap() on a None value")
             ELSE IF id_field[1] # Integer(id)
             THEN TasksFrom(Tail(rows), id, col_icon_id, col_uid, tasks)
             ELSE IF field_at(row, col_icon_id) = None \/ field_at(row, col_uid) = None
             THEN Panic("called Option::unwrap() on a None value")
             ELSE LET icon_id == into_opt("Integer", field_at(row, col_icon_id)[1])
                      uid == into_opt("Integer", field_at(row, col_uid)[1])
                  IN  IF uid = None THEN Panic("called Option::unwrap() on a None value")
                      ELSE TasksFrom(Tail(rows), id, col_icon_id, col_uid,
                               Append(tasks, MissionTask(icon_id, uid[1])))

\* TypedDatabase::get_mission_tasks(id), on the mission_tasks table t over
\* the raw table `table`
get_mission_tasks(t, table, id) ==
    LET hash == bucket_for_hash(id, bucket_count(table))
        bucket == bucket_at(table, hash)
        col_icon_id == get_col(t, cmatch(MissionTasksSpec, "IconID")[1])
        col_uid == get_col(t, cmatch(MissionTasksSpec, "uid")[1])
    IN  IF bucket = None THEN Panic("called Option::unwrap() on a None value")
        ELSE IF col_icon_id = None THEN Panic("Missing column 'MissionTasks::icon_id'")
        ELSE IF col_uid = None THEN Panic("Missing column 'MissionTasks::uid'")
        ELSE TasksFrom(bucket[1], id, col_icon_id[1], col_uid[1], <<>>)

-----------------------------------------------------------------------------
(* Raw tables the model starts from *)

UsizeBits == {32, 64}

Declared(ts) == [c \in Column(ts) |-> ts.columns[c].name]

\* a field of the kind a column declares
Sample(ty, i) ==
    CASE ty = "Integer" -> Integer(i)
      [] ty = "Text" -> Text("a")
      [] ty = "Boolean" -> Boolean(TRUE)
      [] OTHER -> Nothing

\* one row with a well-typed field under every declared name
SampleRow(ts, columns) ==
    [i \in 1..Len(columns) |->
        IF \E c \in Column(ts) : ts.columns[c].name = columns[i]
        THEN Sample(ts.columns[CHOOSE c \in Column(ts) : ts.columns[c].name = columns[i]].ty, i)
        ELSE Integer(99)]

FieldSamples == {Nothing, Integer(0), Integer(5), Text("a"), Boolean(TRUE)}

IconOf(k) ==
    CASE k = 1 -> Integer(5)
      [] k = -4 -> Integer(5)
      [] k = 7 -> Integer(9)
      [] OTHER -> Nothing

\* physical layouts: any columns, in any order, one well-typed row
InitLayout ==
    /\ tspec \in TableSpecs
    /\ \E columns \in SeqsUpTo(DeclaredNames(tspec) \cup ExtraNames, MaxCols) :
          inner = [columns |-> columns,
                   buckets |-> << << SampleRow(tspec, columns) >> >>]

\* row contents: the declared layout, one row of any fields
InitFields ==
    /\ tspec \in TableSpecs
    /\ \E row \in SeqsUpTo(FieldSamples, ccount(tspec)) :
          inner = [columns |-> Declared(tspec), buckets |-> << << row >> >>]

\* bucketing: Missions rows filed under the hash of their key
InitBuckets ==
    /\ tspec = MissionsSpec
    /\ \E n \in 1..MaxBuckets, keys \in SeqsUpTo(Keys, MaxRows) :
          inner = [columns |-> Declared(tspec),
                   buckets |-> Bucketed([i \in 1..Len(keys) |->
                                   << Integer(keys[i]), IconOf(keys[i]) >>], n)]

\* a field of every kind the row store has
KindSamples ==
    {Nothing, Integer(5), Float(2), Text("a"), Boolean(TRUE), BigInt(6), VarChar("v")}

\* value kinds: the declared layout, one row of fields of any kind
InitKinds ==
    /\ usizeBits \in UsizeBits
    /\ tspec \in KindSpecs
    /\ \E row \in SeqsUpTo(KindSamples, ccount(tspec)) :
          inner = [columns |-> Declared(tspec), buckets |-> << << row >> >>]

\* the physical layouts of MissionTasks: as declared, reordered, without uid
TaskLayouts ==
    { <<"id", "IconID", "uid">>, <<"id", "uid", "IconID">>, <<"id", "IconID">> }

\* the field a MissionTasks row holds under a column: the i-th row stored
\* has uid 100 + i, or a null uid when `sound` is FALSE
TaskField(name, k, i, sound) ==
    CASE name = "id" -> Integer(k)
      [] name = "IconID" -> IconOf(k)
      [] name = "uid" -> IF sound THEN Integer(100 + i) ELSE Nothing

TaskRow(columns, k, i, sound) ==
    [j \in 1..Len(columns) |-> TaskField(columns[j], k, i, sound)]

\* MissionTasks: several tasks per mission id, filed under the id's hash;
\* a task of mission 2 may have a null uid
InitTasks ==
    /\ tspec = MissionTasksSpec
    /\ \E columns \in TaskLayouts, n \in 1..MaxBuckets :
       \E keys \in SeqsUpTo(Keys \cup {0}, MaxRows) :
          inner = [columns |-> columns,
                   buckets |-> Bucketed([i \in 1..Len(keys) |->
                                   IF keys[i] = 0
                                   THEN TaskRow(columns, 2, i, FALSE)
                                   ELSE TaskRow(columns, keys[i], i, TRUE)], n)]

Idle == [op |-> "idle"]

\* the threads that read a published table
Threads == {"t1", "t2"}

ReaderIdle == [pc |-> "idle"]

\* the generator before its column loop: no column done, nothing emitted
GenIdle == [done |-> 0, columns |-> <<>>]

AllValid == [slot \in SlotSet |-> "valid"]

Init ==
    /\ usizeBits \in UsizeBits
    /\ InitLayout \/ InitFields \/ InitBuckets
    /\ typed = None
    /\ ret = Idle
    /\ log = <<>>
    /\ tables = AllValid
    /\ db = None
    /\ iters = [h \in Handles |-> None]
    /\ building = None
    /\ readers = [t \in Threads |-> ReaderIdle]
    /\ gen = GenIdle

RECURSIVE SubsetsUpTo(_, _)
\* the subsets of S with at most n elements
SubsetsUpTo(S, n) ==
    IF n = 0 THEN {{}}
    ELSE LET smaller == SubsetsUpTo(S, n - 1)
         IN  smaller \cup {F \cup {x} : F \in smaller, x \in S}

\* table sets in which at most MaxFaults tables are absent or cannot be cast
InitTables ==
    \E F \in SubsetsUpTo(SlotSet, MaxFaults) :
    \E f \in [F -> TableStatus \ {"valid"}] :
        tables = [slot \in SlotSet |-> IF slot \in F THEN f[slot] ELSE "valid"]

\* the state before TypedDatabase::new, which computes no index: one
\* pointer width stands for both
InitDb ==
    /\ usizeBits = 64
    /\ tspec = MissionsSpec
    /\ inner = [columns |-> Declared(tspec), buckets |-> << <<>> >>]
    /\ typed = None
    /\ ret = Idle
    /\ log = <<>>
    /\ InitTables
    /\ db = None
    /\ iters = [h \in Handles |-> None]
    /\ building = None
    /\ readers = [t \in Threads |-> ReaderIdle]
    /\ gen = GenIdle

\* the state before TypedTable::new, for the scans
InitIter ==
    /\ usizeBits \in UsizeBits
    /\ InitBuckets
    /\ typed = None
    /\ ret = Idle
    /\ log = <<>>
    /\ tables = AllValid
    /\ db = None
    /\ iters = [h \in Handles |-> None]
    /\ building = None
    /\ readers = [t \in Threads |-> ReaderIdle]
    /\ gen = GenIdle

-----------------------------------------------------------------------------
(* Operations *)

\* TypedTable::new(inner)
New ==
    /\ typed = None
    /\ typed' = Some(TypedTableNew(tspec, inner))
    /\ UNCHANGED <<usizeBits, tspec, inner, ret, log, dbVars, iterVars, readerVars, genVars>>

Ready == typed # None /\ ret = Idle

Table == typed[1]

Rows == table_row_iter(inner)

\* a call that takes the resolver map out of the table it is made on
CallTaking(op, args, r) ==
    /\ ret' = [op |-> op, args |-> args, res |-> r]
    /\ log' = r.log
    /\ typed' = Some([col |-> <<>>])
    /\ UNCHANGED <<usizeBits, tspec, inner, dbVars, iterVars, readerVars, genVars>>

Call(op, args, r) ==
    /\ ret' = [op |-> op, args |-> args, res |-> r]
    /\ log' = r.log
    /\ UNCHANGED <<usizeBits, tspec, inner, typed, dbVars, iterVars, readerVars, genVars>>

\* table.get_col(c)
GetCol ==
    /\ Ready
    /\ \E c \in Column(tspec) :
          Call("get_col", <<c>>, Ok(get_col(Table, c), <<>>))

\* table.row_iter().collect()
RowIterAll ==
    /\ Ready
    /\ Call("row_iter", <<>>, RowIter(inner))

\* table.key_iter(key).collect()
KeyIterAll ==
    /\ Ready
    /\ \E key \in Keys :
          Call("key_iter", <<key>>, KeyIter(inner, key, usizeBits))

\* Row::get(&table, index_key, key, id_col)
Get ==
    /\ Ready
    /\ \E index_key \in Keys :
       \E key \in GetKeys(index_key), id_col \in 0..1 :
          Call("get", <<index_key, key, id_col>>,
               TypedRowGet(inner, index_key, key, id_col, usizeBits))

\* row.#cname() on the r-th row of the table
Read ==
    /\ Ready
    /\ \E r \in 1..Len(Rows), c \in Column(tspec) :
          Call("accessor", <<r, c>>, Accessor(tspec, Table, Rows[r], c))

\* row.serialize(serializer) on the r-th row of the table
SerializeRow ==
    /\ Ready
    /\ \E r \in 1..Len(Rows) :
          Call("serialize", <<r>>, Serialize(tspec, Table, Rows[r]))

\* table.clone(): #[derive(Clone)] copies the table handle and the map
Clone ==
    /\ Ready
    /\ Call("clone", <<>>, Ok([col |-> Table.col], <<>>))

\* the caller takes the result; a panic is not returned from
Return ==
    /\ ret # Idle
    /\ ret.res.outcome = "ok"
    /\ ret' = Idle
    /\ log' = <<>>
    /\ UNCHANGED <<usizeBits, tspec, inner, typed, dbVars, iterVars, readerVars, genVars>>

Next ==
    \/ New
    \/ GetCol
    \/ RowIterAll
    \/ KeyIterAll
    \/ Get
    \/ Read
    \/ SerializeRow
    \/ Clone
    \/ Return

Spec == Init /\ [][Next]_vars

\* the state before TypedTable::new, for the value kinds
InitKindTables ==
    /\ InitKinds
    /\ typed = None
    /\ ret = Idle
    /\ log = <<>>
    /\ tables = AllValid
    /\ db = None
    /\ iters = [h \in Handles |-> None]
    /\ building = None
    /\ readers = [t \in Threads |-> ReaderIdle]
    /\ gen = GenIdle

SpecKinds == InitKindTables /\ [][Next]_vars

\* the state before the mission_tasks table of the database is built
InitTaskTables ==
    /\ usizeBits \in UsizeBits
    /\ InitTasks
    /\ typed = None
    /\ ret = Idle
    /\ log = <<>>
    /\ tables = AllValid
    /\ db = None
    /\ iters = [h \in Handles |-> None]
    /\ building = None
    /\ readers = [t \in Threads |-> ReaderIdle]
    /\ gen = GenIdle

\* db.get_mission_tasks(id), the typed table being db.mission_tasks
GetMissionTasks ==
    /\ Ready
    /\ \E id \in Keys :
          Call("get_mission_tasks", <<id>>, get_mission_tasks(Table, inner, id))

NextTasks == New \/ GetMissionTasks \/ Return

SpecTasks == InitTaskTables /\ [][NextTasks]_vars

\* TypedDatabase::new(tables)
DatabaseNew ==
    /\ db = None
    /\ db' = Some(TypedDatabaseNew(tables))
    /\ UNCHANGED <<usizeBits, tspec, inner, typed, ret, log, tables, iterVars, readerVars, genVars>>

NextDb == DatabaseNew

\* the tables row_type! is instantiated on with (row_iter, key_iter)
RowTypeTables == {MissionsSpec, ObjectsSpec}

\* row_type!($row $table): table.key_iter(key)
RowTypeKeyIter ==
    /\ ret = Idle
    /\ tspec \in RowTypeTables
    /\ \E key \in Keys :
          Call("row_type_key_iter", <<key>>, row_type_key_iter(inner, key, usizeBits))

\* row_type!(ObjectsRef ObjectsTable ref_iter ref_key_iter): table.ref_key_iter(key)
RowTypeRefKeyIter ==
    /\ ret = Idle
    /\ tspec = ObjectsSpec
    /\ \E key \in Keys :
          Call("row_type_ref_key_iter", <<key>>, row_type_key_iter(inner, key, usizeBits))

NextRowType == RowTypeKeyIter \/ RowTypeRefKeyIter \/ Return

SpecRowType == Init /\ [][NextRowType]_vars

\* the columns a schema handed to the generator declares
SchemaColumns ==
    { ColumnSpec("id", "Integer", FALSE),
      ColumnSpec("missionIconID", "Integer", TRUE),
      ColumnSpec("type", "Integer", FALSE),
      ColumnSpec("static", "Boolean", TRUE),
      ColumnSpec("match", "Text", FALSE) }

\* the generator at the top of its column loop for one table of the schema
InitGen ==
    /\ usizeBits = 64
    /\ \E columns \in SeqsUpTo(SchemaColumns, MaxCols) :
          tspec = [name |-> "Missions", columns |-> columns]
    /\ inner = [columns |-> <<>>, buckets |-> << <<>> >>]
    /\ typed = None
    /\ ret = Idle
    /\ log = <<>>
    /\ tables = AllValid
    /\ db = None
    /\ iters = [h \in Handles |-> None]
    /\ building = None
    /\ readers = [t \in Threads |-> ReaderIdle]
    /\ gen = GenIdle

\* one turn of: for cspec in &tspec.columns { .. }
GenColumn ==
    /\ gen.done < ccount(tspec)
    /\ gen' = [done |-> gen.done + 1,
               columns |-> Append(gen.columns, GenerateColumn(tspec.columns[gen.done + 1]))]
    /\ UNCHANGED <<usizeBits, tspec, inner, typed, ret, log, dbVars, iterVars, readerVars>>

NextGen == GenColumn

SpecGen == InitGen /\ [][NextGen]_vars

\* the state before TypedTable::new, for the reader threads
InitReaders ==
    /\ usizeBits \in UsizeBits
    /\ InitLayout
    /\ typed = None
    /\ ret = Idle
    /\ log = <<>>
    /\ tables = AllValid
    /\ db = None
    /\ iters = [h \in Handles |-> None]
    /\ building = None
    /\ readers = [t \in Threads |-> ReaderIdle]
    /\ gen = GenIdle

\* a table reference that is handed out while new() still fills the map
TableRefEarly(t, b) ==
    IF t # None THEN t
    ELSE IF b # None THEN Some([col |-> b[1].col])
    ELSE None

\* the table a row view can borrow (table: &'b Table): one that new() has
\* returned; the locals of a new() in progress are not reachable
TableRef(t, b) == t

\* TypedTable::new, entered: let mut col = BTreeMap::new()
NewBegin ==
    /\ typed = None
    /\ building = None
    /\ building' = Some([i |-> 1, col |-> <<>>])
    /\ UNCHANGED <<usizeBits, tspec, inner, typed, ret, log, dbVars, iterVars, readers, genVars>>

\* one turn of the loop over inner.column_iter().enumerate()
NewStep ==
    /\ building # None
    /\ building[1].i <= Len(inner.columns)
    /\ LET i == building[1].i
           key == cmatch(tspec, inner.columns[i])
       IN  building' = Some([i |-> i + 1,
                             col |-> IF key # None
                                     THEN BTreeInsert(building[1].col, key[1], i - 1)
                                     ELSE building[1].col])
    /\ UNCHANGED <<usizeBits, tspec, inner, typed, ret, log, dbVars, iterVars, readers, genVars>>

\* Self { inner, col }: the table exists from here on
NewReturn ==
    /\ building # None
    /\ building[1].i > Len(inner.columns)
    /\ typed' = Some([col |-> building[1].col])
    /\ building' = None
    /\ UNCHANGED <<usizeBits, tspec, inner, ret, log, dbVars, iterVars, readers, genVars>>

\* the table as the accessor sees it after get_col(c) returned `index`
Resolved(c, index) == [col |-> IF index = None THEN <<>> ELSE [d \in {c} |-> index[1]]]

\* thread t obtains the row view of row r: R::new(row, table)
ReaderStart ==
    /\ TableRef(typed, building) # None
    /\ \E t \in Threads, r \in 1..Len(Rows), c \in Column(tspec) :
          /\ readers[t].pc = "idle"
          /\ readers' = [readers EXCEPT ![t] = [pc |-> "row", r |-> r, c |-> c]]
    /\ UNCHANGED <<usizeBits, tspec, inner, typed, ret, log, dbVars, iterVars, building, genVars>>

\* thread t, in the accessor of column c: self.table.get_col(c)
ReaderGetCol ==
    /\ \E t \in Threads :
          /\ readers[t].pc = "row"
          /\ readers' = [readers EXCEPT ![t] =
                 [pc |-> "col", r |-> @.r, c |-> @.c,
                  index |-> get_col(TableRef(typed, building)[1], @.c)]]
    /\ UNCHANGED <<usizeBits, tspec, inner, typed, ret, log, dbVars, iterVars, building, genVars>>

\* thread t, in the accessor: the rest of the body, from the index on
ReaderField ==
    /\ \E t \in Threads :
          /\ readers[t].pc = "col"
          /\ readers' = [readers EXCEPT ![t] =
                 [pc |-> "done", r |-> @.r, c |-> @.c,
                  res |-> Accessor(tspec, Resolved(@.c, @.index), Rows[@.r], @.c)]]
    /\ UNCHANGED <<usizeBits, tspec, inner, typed, ret, log, dbVars, iterVars, building, genVars>>

\* thread t takes the value and drops the row view
ReaderDrop ==
    /\ \E t \in Threads :
          /\ readers[t].pc = "done"
          /\ readers[t].res.outcome = "ok"
          /\ readers' = [readers EXCEPT ![t] = ReaderIdle]
    /\ UNCHANGED <<usizeBits, tspec, inner, typed, ret, log, dbVars, iterVars, building, genVars>>

NextReaders ==
    \/ NewBegin
    \/ NewStep
    \/ NewReturn
    \/ ReaderStart
    \/ ReaderGetCol
    \/ ReaderField
    \/ ReaderDrop

SpecReaders == InitReaders /\ [][NextReaders]_vars

\* let it = table.row_iter(), held by consumer h (again: a fresh iterator)
RowIterStart ==
    /\ typed # None
    /\ \E h \in Handles :
          iters' = [iters EXCEPT ![h] = Some(RowIterNew(inner))]
    /\ UNCHANGED <<usizeBits, tspec, inner, typed, ret, log, dbVars, readerVars, genVars>>

\* it.next() by consumer h
IterNext ==
    /\ \E h \in Handles :
          /\ iters[h] # None
          /\ iters' = RowIterNext(iters, h)
    /\ UNCHANGED <<usizeBits, tspec, inner, typed, ret, log, dbVars, readerVars, genVars>>

NextIter == New \/ RowIterStart \/ IterNext

SpecIter == InitIter /\ [][NextIter]_vars

SpecDb == InitDb /\ [][NextDb]_vars

-----------------------------------------------------------------------------
(* Properties *)

Range(seq) == {seq[i] : i \in 1..Len(seq)}

\* the rows of the table whose physical field 0 is the integer `key`
RowsWithKey(key) == SelectSeq(Rows, LAMBDA row : field_at(row, 0) = Some(Integer(key)))

\* no two rows of the table carry the same primary key
UniqueKeys ==
    \A i, j \in 1..Len(Rows) :
        i # j => field_at(Rows[i], 0) # field_at(Rows[j], 0)

\* rows i and j carry different integer keys and are filed in the same bucket
Collide(i, j) ==
    /\ Len(Rows[i]) > 0 /\ Len(Rows[j]) > 0
    /\ Rows[i][1].kind = "Integer" /\ Rows[j][1].kind = "Integer"
    /\ Rows[i][1] # Rows[j][1]
    /\ RowBucket(Rows[i], bucket_count(inner)) = RowBucket(Rows[j], bucket_count(inner))

(* C1: on a table with unique primary keys, key_iter(K) yields exactly one
   row, whose field 0 is K, when K is in the table, and yields nothing when
   K is not in the table. *)
C1_KeyedLookup ==
    (ret.op = "key_iter" /\ UniqueKeys) =>
        /\ ret.res.outcome = "ok"
        /\ IF RowsWithKey(ret.args[1]) # <<>>
           THEN /\ Len(ret.res.val) = 1
                /\ field_at(ret.res.val[1], 0) = Some(Integer(ret.args[1]))
           ELSE ret.res.val = <<>>

(* C2: the bucket index key_iter and TypedRow::get compute for a key is the
   key's bit pattern read as an unsigned 32-bit integer, modulo the bucket
   count: the bucket the helper queries reach. *)
C2_BucketIndex ==
    ret.op \in {"key_iter", "get"} =>
        /\ ret.res.outcome = "ok"
        /\ ret.res.hash = bucket_for_hash(ret.args[1], bucket_count(inner))

(* C3: when two rows with different keys share a bucket, the full scan
   yields both, and key_iter for the key of either yields that row and no
   row with another key. *)
C3_BucketCollision ==
    \A i, j \in 1..Len(Rows) :
        Collide(i, j) =>
            /\ ret.op = "row_iter" =>
                  {Rows[i], Rows[j]} \subseteq Range(ret.res.val)
            /\ (ret.op = "key_iter" /\ Rows[i][1] = Integer(ret.args[1])) =>
                  /\ Rows[i] \in Range(ret.res.val)
                  /\ Rows[j] \notin Range(ret.res.val)
                  /\ \A row \in Range(ret.res.val) :
                        field_at(row, 0) = Some(Integer(ret.args[1]))

\* the physical indexes at which the raw table has a column named `name`
PhysIndexes(name) ==
    {i \in 0..(Len(inner.columns) - 1) : inner.columns[i + 1] = name}

Min(S) == CHOOSE x \in S : \A y \in S : x <= y

Max(S) == CHOOSE x \in S : \A y \in S : x >= y

UniqueColumnNames ==
    \A i, j \in 1..Len(inner.columns) : i # j => inner.columns[i] # inner.columns[j]

(* C4, as claimed: when several physical columns carry the name of one
   declared column, the resolver records the index of the first of them. *)
C4_FirstWins ==
    typed # None =>
        \A c \in Column(tspec) :
            Cardinality(PhysIndexes(to_static_str(tspec, c))) >= 2 =>
                get_col(Table, c) = Some(Min(PhysIndexes(to_static_str(tspec, c))))

(* C4, amended: when several physical columns carry the name of one declared
   column, the resolver records the index of the last of them in stored
   order; every earlier one is overwritten. *)
C4_LastWins ==
    typed # None =>
        \A c \in Column(tspec) :
            Cardinality(PhysIndexes(to_static_str(tspec, c))) >= 2 =>
                get_col(Table, c) = Some(Max(PhysIndexes(to_static_str(tspec, c))))

C4_Witness ==
    /\ ret.op = "get_col"
    /\ Cardinality(PhysIndexes(to_static_str(tspec, ret.args[1]))) >= 2
    /\ ret.res.val = Some(Max(PhysIndexes(to_static_str(tspec, ret.args[1]))))
    /\ ret.res.val # Some(Min(PhysIndexes(to_static_str(tspec, ret.args[1]))))

(* C5: with unique physical column names, get_col(c) is the index of the
   physical column named exactly as c is declared, and None when there is
   none; every index in the map is that of a column with a declared name. *)
C5_ResolvedByName ==
    (typed # None /\ UniqueColumnNames) =>
        /\ \A c \in Column(tspec) :
              IF PhysIndexes(to_static_str(tspec, c)) = {}
              THEN get_col(Table, c) = None
              ELSE get_col(Table, c) = Some(Min(PhysIndexes(to_static_str(tspec, c))))
        /\ \A c \in DOMAIN Table.col :
              /\ c \in Column(tspec)
              /\ Table.col[c] \in PhysIndexes(to_static_str(tspec, c))
        /\ ret.op = "get_col" =>
              ret.res.val = get_col(Table, ret.args[1])

C5_Witness ==
    /\ tspec = MissionsSpec
    /\ inner.columns = <<"missionIconID", "id", "extra">>
    /\ ret.op = "get_col"
    /\ ret.args = <<1>>
    /\ ret.res.val = Some(1)

(* C6: TypedTable::new returns a table for every physical column set; a
   declared column without a physical column is only left out of the map. *)
C6_NewNeverFails ==
    /\ typed = None => ENABLED New
    /\ typed # None =>
          /\ DOMAIN typed[1] = {"col"}
          /\ DOMAIN typed[1].col =
                {c \in Column(tspec) : PhysIndexes(to_static_str(tspec, c)) # {}}

C6_Witness ==
    /\ typed # None
    /\ inner.columns = <<>>
    /\ ret.op = "get_col"
    /\ ~ tspec.columns[ret.args[1]].nullable
    /\ ret.res.val = None

\* the names of the fields a serialization emitted, in order
FieldNames(fields) == [i \in 1..Len(fields) |-> fields[i].name]

(* C7: a completed serialization emits the fields of the resolved columns
   in the order the schema declares them, whatever the physical order. *)
C7_DeclaredOrder ==
    (ret.op = "serialize" /\ ret.res.outcome = "ok") =>
        FieldNames(ret.res.val.fields) =
            SelectSeq(Declared(tspec), LAMBDA n : PhysIndexes(n) # {})

C7_Witness ==
    /\ tspec = ObjectsSpec
    /\ inner.columns = <<"placeable", "name", "id">>
    /\ ret.op = "serialize"
    /\ ret.res.outcome = "ok"
    /\ FieldNames(ret.res.val.fields) = <<"id", "name", "placeable">>

\* the default of a value kind, as the claim lists them
TypeDefault(ty) ==
    CASE ty = "Integer" -> 0
      [] ty = "Boolean" -> FALSE
      [] ty = "Text" -> ""

\* the field a read of column c of row r reaches, as an Option
FieldRead(r, c) ==
    IF c \in DOMAIN Table.col THEN field_at(Rows[r], Table.col[c]) ELSE None

(* C8: reading a resolved non-nullable column whose field is null or of
   another kind returns the default of the kind, without failing, and emits
   exactly one diagnostic naming the table, the column and the row's
   physical field 0. *)
C8_NonNullableDefault ==
    (/\ ret.op = "accessor"
     /\ ~ tspec.columns[ret.args[2]].nullable
     /\ tspec.columns[ret.args[2]].ty \in {"Integer", "Boolean", "Text"}
     /\ FieldRead(ret.args[1], ret.args[2]) # None
     /\ FieldRead(ret.args[1], ret.args[2])[1].kind # tspec.columns[ret.args[2]].ty) =>
        /\ ret.res.outcome = "ok"
        /\ ret.res.val = TypeDefault(tspec.columns[ret.args[2]].ty)
        /\ Len(log) = 1
        /\ log[1].table = tspec.name
        /\ log[1].column = tspec.columns[ret.args[2]].name
        /\ log[1].pk = Rows[ret.args[1]][1]

C8_Witness ==
    /\ ret.op = "accessor"
    /\ tspec = MissionsSpec
    /\ ret.args[2] = 1
    /\ Rows[ret.args[1]] = << Nothing, Integer(5) >>
    /\ ret.res.outcome = "ok"
    /\ ret.res.val = 0
    /\ log = << [level |-> "warn", what |-> "Missing non-nullable field",
                 column |-> "id", table |-> "Missions", pk |-> Nothing] >>

\* the declared column with the given name
ColumnNamed(name) == CHOOSE c \in Column(tspec) : tspec.columns[c].name = name

\* what serializing the return value of column c's accessor emits: an
\* Option<T> as it is, a bare T as a present value
AccessorEmits(a, c) == IF tspec.columns[c].nullable THEN a.val ELSE Some(a.val)

(* C9: every field a serialization emits carries the value the column's
   accessor returns for that row, with the accessor's diagnostics. *)
C9_SerializeAsAccessor ==
    (ret.op = "serialize" /\ ret.res.outcome = "ok") =>
        \A i \in 1..Len(ret.res.val.fields) :
            LET c == ColumnNamed(ret.res.val.fields[i].name)
                a == Accessor(tspec, Table, Rows[ret.args[1]], c)
            IN  /\ a.outcome = "ok"
                /\ ret.res.val.fields[i].value = AccessorEmits(a, c)
                /\ Range(a.log) \subseteq Range(log)

\* a field is of the kind the column declares (every field is, for Nothing)
WellTyped(ty, f) == ty = "Nothing" \/ f.kind = ty

ValueOf(ty, f) == IF ty = "Nothing" THEN <<>> ELSE f.val

(* C10: reading a nullable column never fails; it returns the value as
   present when the column is resolved and the field is of the declared
   kind, no value when the column is resolved and the field is null, of
   another kind or absent from the row, and no value with one diagnostic
   when the column is unresolved. *)
C10_NullablePolicy ==
    (ret.op = "accessor" /\ tspec.columns[ret.args[2]].nullable) =>
        LET c == ret.args[2]
            f == FieldRead(ret.args[1], c)
        IN  /\ ret.res.outcome = "ok"
            /\ IF c \notin DOMAIN Table.col
               THEN /\ ret.res.val = None
                    /\ Len(log) = 1
                    /\ log[1].column = tspec.columns[c].name
                    /\ log[1].table = tspec.name
               ELSE /\ log = <<>>
                    /\ IF f # None /\ WellTyped(tspec.columns[c].ty, f[1])
                       THEN ret.res.val = Some(ValueOf(tspec.columns[c].ty, f[1]))
                       ELSE ret.res.val = None

C10_Witness ==
    /\ ret.op = "accessor"
    /\ tspec.columns[ret.args[2]].nullable
    /\ ret.args[2] \notin DOMAIN Table.col
    /\ ret.res.outcome = "ok"
    /\ ret.res.val = None
    /\ Len(log) = 1

\* the non-nullable declared columns the table did not resolve
UnresolvedMandatory == {d \in Column(tspec) : ~ tspec.columns[d].nullable /\ d \notin DOMAIN Table.col}

(* C11: every read of a non-nullable column that is declared but unresolved
   fails at that read with the "Missing column" error and returns nothing;
   the table was constructed all the same, and a read of any other column
   of the same row, resolved with its field present or nullable, does not
   fail. *)
C11_MissingColumnFailsAtAccess ==
    ret.op = "accessor" =>
        LET c == ret.args[2]
        IN  /\ typed # None
            /\ c \in UnresolvedMandatory =>
                  /\ ret.res.outcome = "panic"
                  /\ ret.res.msg = "Missing column"
                  /\ ~ ENABLED Return
            /\ (/\ UnresolvedMandatory \ {c} # {}
                /\ c \notin UnresolvedMandatory
                /\ (FieldRead(ret.args[1], c) # None \/ c \notin DOMAIN Table.col)) =>
                  ret.res.outcome = "ok"

C11_Witness ==
    /\ typed # None
    /\ tspec = ObjectsSpec
    /\ inner.columns = <<"name", "placeable">>
    /\ ret.op = "accessor"
    /\ ret.args[2] = 1
    /\ ret.res.outcome = "panic"
    /\ ret.res.msg = "Missing column"

\* the table of the i-th field is one new() cannot go past
Faulty(i) ==
    \/ tables[Slots[i]] = "invalid"
    \/ tables[Slots[i]] = "absent" /\ Slots[i] \notin TransposeSlots

RECURSIVE FirstFaultFrom(_)
\* the position of the first such table from the i-th field on, 0 if none
FirstFaultFrom(i) ==
    IF i > Len(Slots) THEN 0
    ELSE IF Faulty(i) THEN i
    ELSE FirstFaultFrom(i + 1)

(* C12: when a mandatory table is absent from the table set,
   TypedDatabase::new produces no database and returns a failure result to
   its caller. *)
C12_MissingMandatoryReturned ==
    (db # None /\ \E slot \in UnwrapSlots : tables[slot] = "absent") =>
        db[1].outcome = "err"

(* C13: when every mandatory table is present and well-formed and no
   optional table fails its cast, TypedDatabase::new succeeds; the field of
   a table built through the optional path is one that can hold an absent
   marker and holds it when the table is absent, and holds a present table
   view when the table exists. *)
C13_OptionalAbsent ==
    (/\ db # None
     /\ \A slot \in UnwrapSlots : tables[slot] = "valid"
     /\ \A slot \in TransposeSlots : tables[slot] # "invalid") =>
        /\ db[1].outcome = "ok"
        /\ \A slot \in TransposeSlots :
              IF tables[slot] = "absent"
              THEN slot \in OptionFields /\ db[1].val[slot] = None
              ELSE db[1].val[slot] = Some([view |-> slot])

(* C14: TypedTable::of returns not-found exactly when the table is absent,
   the cast failure when the table exists with an invalid shape, and a
   constructed table view otherwise; TypedDatabase::new returns the cast
   failure of the first table it cannot go past, unchanged. *)
C14_CastFailureSurfaced ==
    /\ \A slot \in DOMAIN tables :
          TypedTableOf(tables, slot) =
              CASE tables[slot] = "absent" -> None
                [] tables[slot] = "invalid" -> Some(ResultErr(CastErrorOf(slot)))
                [] tables[slot] = "valid" -> Some(ResultOk([view |-> slot]))
    /\ db # None =>
          LET i == FirstFaultFrom(1)
          IN  (i # 0 /\ tables[Slots[i]] = "invalid") =>
                  /\ db[1].outcome = "err"
                  /\ db[1].err = CastErrorOf(Slots[i])

C14_Witness ==
    /\ db # None
    /\ tables["rebuild_sections"] = "absent"
    /\ tables["zone_table"] = "invalid"
    /\ db[1].outcome = "err"
    /\ db[1].err = CastErrorOf("zone_table")

\* sequence p is the start of sequence q
IsPrefix(p, q) == Len(p) <= Len(q) /\ p = SubSeq(q, 1, Len(p))

(* C15: each iterator row_iter hands out yields the physical rows of the
   table in table order, one each, and then ends: what a consumer has
   received is always a prefix of the table's rows, is all of them once the
   iterator has ended, and is so whatever the other iterator has consumed;
   an iterator obtained again starts from the first row. *)
C15_FullScan ==
    \A h \in Handles :
        iters[h] # None =>
            /\ IsPrefix(iters[h][1].yielded, Rows)
            /\ iters[h][1].yielded \o iters[h][1].inner = Rows
            /\ iters[h][1].ended => iters[h][1].yielded = Rows

C15_Witness ==
    /\ Len(Rows) = 3
    /\ bucket_count(inner) = 2
    /\ iters["a"] # None /\ iters["a"][1].ended /\ iters["a"][1].yielded = Rows
    /\ iters["b"] # None /\ Len(iters["b"][1].yielded) = 1

(* C16: whatever the physical table, the column enum generated for a
   TableSpec has one variant per declared column, all distinct, and the
   resolver's name match takes the name to_static_str gives for a variant
   back to that variant. *)
C16_ColumnIdentifiers ==
    /\ Cardinality(DOMAIN cslist(tspec)) = ccount(tspec)
    /\ Cardinality(Range(cslist(tspec))) = ccount(tspec)
    /\ \A c \in Column(tspec) :
          /\ cmatch(tspec, to_static_str(tspec, c)) = Some(c)
          /\ to_static_str(tspec, c) = tspec.columns[c].name

C16_Witness ==
    /\ tspec = IconsSpec
    /\ inner.columns = <<"extra">>
    /\ typed # None
    /\ ret.op = "get_col"
    /\ ret.args = <<3>>
    /\ ret.res.val = None
    /\ cslist(tspec) = <<"IconId", "IconPath", "Static">>
    /\ cmatch(tspec, to_static_str(tspec, 3)) = Some(3)

(* C17: once the table is constructed no operation changes its resolver
   map: every step leaves the table as it is, get_col(c) returns what the
   map holds for c on every call, and a clone carries an equal map. *)
C17_MappingImmutable ==
    [][typed # None =>
          /\ typed' = typed
          /\ (ret'.op = "get_col" =>
                 ret'.res.val = get_col(typed[1], ret'.args[1]))
          /\ (ret'.op = "clone" => ret'.res.val.col = typed[1].col)]_vars

C17_Witness ==
    /\ typed = Some(TypedTableNew(tspec, inner))
    /\ DOMAIN typed[1].col # {}
    /\ ret.op = "clone"
    /\ ret.res.val.col = typed[1].col

(* C18: the resolver map is written only while new() runs and is complete
   when the table exists; a thread holds a row view only of a table new()
   has returned, and in every interleaving of the reader threads each
   lookup and each read returns what it returns on the complete map when
   the thread runs alone. *)
C18_PublishedBeforeRead ==
    /\ typed # None =>
          /\ building = None
          /\ typed[1] = TypedTableNew(tspec, inner)
    /\ \A t \in Threads :
          readers[t].pc # "idle" =>
              /\ typed # None
              /\ readers[t].pc = "col" =>
                    readers[t].index =
                        get_col(TypedTableNew(tspec, inner), readers[t].c)
              /\ readers[t].pc = "done" =>
                    readers[t].res =
                        Accessor(tspec, TypedTableNew(tspec, inner),
                                 Rows[readers[t].r], readers[t].c)

C18_Witness ==
    /\ typed # None
    /\ Len(inner.columns) = 3
    /\ readers["t1"].pc = "col" /\ readers["t1"].index # None
    /\ readers["t2"].pc = "done" /\ readers["t2"].c = readers["t1"].c
    /\ readers["t2"].res.outcome = "ok"

\* the Missions table of the walkthrough: rows (1, 5), (2, null), (7, 9)
Walkthrough ==
    /\ tspec = MissionsSpec
    /\ inner.columns = <<"id", "missionIconID">>
    /\ Len(Rows) = 3
    /\ Range(Rows) = { << Integer(1), Integer(5) >>,
                       << Integer(2), Nothing >>,
                       << Integer(7), Integer(9) >> }

(* C19: on the Missions table with rows (1, 5), (2, null), (7, 9),
   key_iter(2) yields exactly one row, whose missionIconID accessor returns
   no value; the full scan yields 3 rows; and serializing the row with id 1
   emits the fields id = 1 and missionIconID = 5, in that order. *)
C19_EndToEnd ==
    Walkthrough =>
        /\ ret.op = "key_iter" /\ ret.args = <<2>> =>
              /\ ret.res.outcome = "ok"
              /\ ret.res.val = << << Integer(2), Nothing >> >>
              /\ Accessor(tspec, Table, ret.res.val[1], 2) = Ok(None, <<>>)
        /\ (ret.op = "accessor" /\ Rows[ret.args[1]][1] = Integer(2) /\ ret.args[2] = 2) =>
              ret.res = Ok(None, <<>>)
        /\ ret.op = "row_iter" =>
              ret.res.outcome = "ok" /\ Len(ret.res.val) = 3
        /\ (ret.op = "serialize" /\ Rows[ret.args[1]][1] = Integer(1)) =>
              /\ ret.res.outcome = "ok"
              /\ ret.res.val.fields = << [name |-> "id", value |-> Some(1)],
                                         [name |-> "missionIconID", value |-> Some(5)] >>

C19_Witness ==
    /\ Walkthrough
    /\ bucket_count(inner) = 1
    /\ ret.op = "key_iter"
    /\ ret.args = <<2>>
    /\ Len(ret.res.val) = 1
    /\ Accessor(tspec, Table, ret.res.val[1], 2).val = None

(* C20: every field a serialization emits is named by the declared name of
   a declared column and carries the field of the physical column resolved
   for it, no declared column is emitted twice, and so no field is emitted
   for a physical column the schema does not declare. *)
C20_SerializedShape ==
    (ret.op = "serialize" /\ ret.res.outcome = "ok") =>
        LET fields == ret.res.val.fields
        IN  /\ \A i \in 1..Len(fields) :
                  /\ fields[i].name \in DeclaredNames(tspec)
                  /\ fields[i].name \notin ExtraNames
                  /\ \E c \in DOMAIN Table.col :
                        /\ fields[i].name = tspec.columns[c].name
                        /\ inner.columns[Table.col[c] + 1] = fields[i].name
                        /\ fields[i].value =
                              map_fn(tspec.columns[c].ty, Rows[ret.args[1]][Table.col[c] + 1])
            /\ \A i, j \in 1..Len(fields) :
                  i # j => fields[i].name # fields[j].name
            /\ Len(fields) <= ccount(tspec)

C20_Witness ==
    /\ tspec = MissionsSpec
    /\ inner.columns = <<"extra", "missionIconID", "missionIconID">>
    /\ ret.op = "serialize"
    /\ ret.res.outcome = "ok"
    /\ FieldNames(ret.res.val.fields) = <<"missionIconID">>

\* the rows of a bucket whose field at id_col is the integer key
Matching(bucket, id_col, key) ==
    SelectSeq(bucket, LAMBDA r : field_at(r, id_col) = Some(Integer(key)))

(* C21: TypedRow::get returns the first row, in bucket order, of the bucket
   it selected whose field at id_col is the integer key, and nothing when
   no row of that bucket matches or there is no such bucket, whatever the
   other buckets hold. *)
C21_GetFirstInBucket ==
    ret.op = "get" =>
        LET b == bucket_at(inner, ret.res.hash)
        IN  /\ ret.res.outcome = "ok"
            /\ IF b = None \/ Matching(b[1], ret.args[3], ret.args[2]) = <<>>
               THEN ret.res.val = None
               ELSE ret.res.val = Some(Head(Matching(b[1], ret.args[3], ret.args[2])))

C21_Witness ==
    /\ ret.op = "get"
    /\ ret.args = <<1, 5, 1>>
    /\ bucket_count(inner) = 1
    /\ Rows = << << Integer(-4), Integer(5) >>, << Integer(7), Integer(9) >>,
                 << Integer(1), Integer(5) >> >>
    /\ ret.res.val = Some(<< Integer(-4), Integer(5) >>)

(* C22: serializing a row of a constructed table always completes, whatever
   the row holds and whichever declared columns are resolved. *)
C22_SerializeNeverFails ==
    ret.op = "serialize" => ret.res.outcome = "ok"

\* the keywords of Rust (2018 edition), strict and reserved
Keywords ==
    { "as", "async", "await", "break", "const", "continue", "crate", "dyn",
      "else", "enum", "extern", "false", "fn", "for", "if", "impl", "in",
      "let", "loop", "match", "mod", "move", "mut", "pub", "ref", "return",
      "self", "static", "struct", "super", "trait", "true", "type", "unsafe",
      "use", "where", "while", "abstract", "become", "box", "do", "final",
      "macro", "override", "priv", "try", "typeof", "unsized", "virtual",
      "yield" }

(* C23: for every declared column whose snake-case accessor name is a
   keyword the generator emits the escaped (raw) identifier as the accessor
   name, and for every column, escaped or not, the variant, the name used
   for resolution and serialization and the extraction policy are those of
   the declaration. *)
C23_KeywordEscaping ==
    \A i \in 1..Len(gen.columns) :
        LET cspec == tspec.columns[i]
            g == gen.columns[i]
        IN  /\ g.cname = IF to_snake_case(cspec.name) \in Keywords
                         THEN "r#" \o to_snake_case(cspec.name)
                         ELSE to_snake_case(cspec.name)
            /\ g.cfname = to_camel_case(cspec.name)
            /\ g.to_static_str = cspec.name
            /\ g.serialize_field = cspec.name
            /\ g.cmatch = cspec.name
            /\ g.map_fn = cspec.ty
            /\ g.nullable = cspec.nullable

\* what the try-convert of kind ty gives for field f, as the claim has it:
\* unit for a Nothing column, the value for a field of the kind, else null
Extracted(ty, f) ==
    IF ty = "Nothing" THEN Some(<<>>)
    ELSE IF f.kind = ty THEN Some(f.val)
    ELSE None

(* C24: the accessor and the serialization clause of a resolved column
   convert the field with the try-convert of the declared kind: a field of
   that kind gives its value, a field of any other kind is treated as null
   (no value for a nullable column, the default with one diagnostic for a
   non-nullable one), and a Nothing column gives unit for every field,
   never no value and never a diagnostic. *)
C24_PerKindExtraction ==
    /\ (ret.op = "accessor" /\ FieldRead(ret.args[1], ret.args[2]) # None) =>
          LET cspec == tspec.columns[ret.args[2]]
              e == Extracted(cspec.ty, FieldRead(ret.args[1], ret.args[2])[1])
          IN  /\ ret.res.outcome = "ok"
              /\ IF cspec.nullable
                 THEN ret.res.val = e /\ log = <<>>
                 ELSE IF e # None
                 THEN ret.res.val = e[1] /\ log = <<>>
                 ELSE ret.res.val = default(cspec.ty) /\ Len(log) = 1
              /\ cspec.ty = "Nothing" =>
                    /\ cspec.nullable => ret.res.val = Some(<<>>)
                    /\ log = <<>>
    /\ (ret.op = "serialize" /\ ret.res.outcome = "ok") =>
          \A i \in 1..Len(ret.res.val.fields) :
              LET c == ColumnNamed(ret.res.val.fields[i].name)
              IN  ret.res.val.fields[i].value =
                      Extracted(tspec.columns[c].ty, FieldRead(ret.args[1], c)[1])

C24_Witness ==
    /\ tspec = MarkersSpec
    /\ Rows = << << Integer(5), Text("a") >> >>
    /\ ret.op = "accessor"
    /\ ret.args[2] = 2
    /\ ret.res.val = Some(<<>>)
    /\ log = <<>>

\* the field of a row under the physical column named `name`
FieldNamed(row, name) == row[Min(PhysIndexes(name)) + 1]

\* the rows of the bucket the true hash of id selects
BucketOf(id) == inner.buckets[bucket_for_hash(id, bucket_count(inner)) + 1]

(* C25: get_mission_tasks(id) returns one MissionTask for each row of the
   bucket selected by id whose field 0 is the integer id, in bucket order,
   with that row's uid and its icon id if it has one; other rows of the
   bucket contribute nothing and no match gives the empty list.  It returns
   whenever the uid and IconID columns are resolved and the matching rows
   have an integer uid. *)
C25_MissionTasks ==
    ret.op = "get_mission_tasks" =>
        LET id == ret.args[1]
            matching == Matching(BucketOf(id), 0, id)
        IN  /\ ret.res.outcome = "ok" <=>
                  /\ {"IconID", "uid"} \subseteq Range(inner.columns)
                  /\ \A i \in 1..Len(matching) :
                        FieldNamed(matching[i], "uid").kind = "Integer"
            /\ ret.res.outcome = "ok" =>
                  /\ Len(ret.res.val) = Len(matching)
                  /\ \A i \in 1..Len(matching) :
                        /\ ret.res.val[i].uid = FieldNamed(matching[i], "uid").val
                        /\ ret.res.val[i].icon_id =
                              into_opt("Integer", FieldNamed(matching[i], "IconID"))

C25_Witness ==
    /\ ret.op = "get_mission_tasks"
    /\ ret.args = <<1>>
    /\ inner.columns = <<"id", "uid", "IconID">>
    /\ bucket_count(inner) = 1
    /\ Len(Rows) = 3
    /\ Rows[2][1] = Integer(7)
    /\ ret.res.outcome = "ok"
    /\ ret.res.val = << MissionTask(Some(5), 101), MissionTask(Some(5), 103) >>

(* C26: on a table with at least one bucket, TypedRow::get(table, K, K, 0)
   returns the first row key_iter(K) yields when it yields any, and nothing
   when key_iter(K) yields none. *)
C26_GetAgreesWithKeyIter ==
    (/\ ret.op = "get"
     /\ ret.args[1] = ret.args[2]
     /\ ret.args[3] = 0
     /\ bucket_count(inner) >= 1) =>
        LET k == KeyIter(inner, ret.args[1], usizeBits)
        IN  /\ k.outcome = "ok"
            /\ ret.res.outcome = "ok"
            /\ ret.res.val = IF k.val = <<>> THEN None ELSE Some(Head(k.val))

C26_Witness ==
    /\ ret.op = "get"
    /\ ret.args = <<7, 7, 0>>
    /\ bucket_count(inner) = 3
    /\ Len(Rows) = 3
    /\ KeyIter(inner, 7, usizeBits).val = << << Integer(7), Integer(9) >> >>
    /\ ret.res.val = Some(<< Integer(7), Integer(9) >>)
    /\ \E i \in 1..3 : Rows[i][1] = Integer(1)

(* C27: TypedDatabase::new examines the tables in one fixed order and stops
   at the first fault: its outcome is the one of the first faulty table in
   that order, whatever the later tables are (the cast failure of an earlier
   table even when a later mandatory table is missing, and the reverse), and
   the tables it looked up are exactly those up to the first faulty one. *)
C27_FirstFaultDecides ==
    db # None =>
        LET i == FirstFaultFrom(1)
        IN  IF i = 0
            THEN db[1].outcome = "ok" /\ db[1].looked_up = Slots
            ELSE /\ db[1].looked_up = SubSeq(Slots, 1, i)
                 /\ IF tables[Slots[i]] = "invalid"
                    THEN db[1].outcome = "err" /\ db[1].err = CastErrorOf(Slots[i])
                    ELSE db[1].outcome = "panic"

C27_Witness ==
    /\ db # None
    /\ tables["icons"] = "invalid"
    /\ tables["missions"] = "absent"
    /\ db[1].outcome = "err"
    /\ db[1].err = CastErrorOf("icons")
    /\ db[1].looked_up = SubSeq(Slots, 1, 11)

(* C29: an optional table that exists but fails the structural cast is not
   treated as absent: when it is the first table new() cannot go past, new()
   returns its cast failure, and a database new() returns holds the absent
   marker for an optional table exactly when that table was not found. *)
C29_OptionalCastFailure ==
    db # None =>
        \A slot \in TransposeSlots :
            /\ (/\ tables[slot] = "invalid"
                /\ FirstFaultFrom(1) # 0
                /\ Slots[FirstFaultFrom(1)] = slot) =>
                    /\ db[1].outcome = "err"
                    /\ db[1].err = CastErrorOf(slot)
            /\ db[1].outcome = "ok" =>
                    (db[1].val[slot] = None <=> tables[slot] = "absent")

C29_Witness ==
    /\ db # None
    /\ tables["rebuild_sections"] = "invalid"
    /\ tables["jet_pack_pad_component"] = "absent"
    /\ db[1].outcome = "err"
    /\ db[1].err = CastErrorOf("rebuild_sections")
    /\ db[1].looked_up = SubSeq(Slots, 1, 33)

(* C28: the number of fields a row emits when serialized equals the field
   count announced at the start of the record (the declared column count),
   for every physical layout, those with unresolved declared columns
   included. *)
C28_AnnouncedFieldCount ==
    (ret.op = "serialize" /\ ret.res.outcome = "ok") =>
        /\ ret.res.val.len = ccount(tspec)
        /\ Len(ret.res.val.fields) = ret.res.val.len

(* C30: the keyed iterators of row_type! (key_iter, ref_key_iter) yield, for
   every key K, only rows whose primary-key field equals K, never another
   row of the bucket. *)
C30_RowTypeKeyIterFilters ==
    (ret.op \in {"row_type_key_iter", "row_type_ref_key_iter"} /\ ret.res.outcome = "ok") =>
        \A i \in 1..Len(ret.res.val) :
            field_at(ret.res.val[i], 0) = Some(Integer(ret.args[1]))
====
